---- MODULE Spec2Model ----
(***************************************************************************)
(* A model of cloudsync's reconciliation engine (src/src/lib.rs,           *)
(* sync_files) together with the parts of the world it talks to: the local *)
(* directory, the reserved state file root/.cloudfiles, the account        *)
(* record in the config file, and the OneDrive endpoints used by           *)
(* src/src/onedrive.rs (delta, download, upload, delete).                  *)
(*                                                                         *)
(* Strings are sequences of one-character strings, so that the string      *)
(* operations of the code (format!, split, rsplit_once, split_once, parse) *)
(* are computed and not assumed.                                           *)
(***************************************************************************)
EXTENDS Naturals, Sequences, FiniteSets, TLC

(* ------------------------------ bounds -------------------------------- *)

\* Last value of the wall clock (seconds).
MaxTime == 3

\* Number of sync_files invocations in one behaviour.
MaxRuns == 2

\* Number of changes the user and other clients make (local and remote).
MaxEnvOps == 2

\* Number of injected I/O or transport failures in one behaviour.
MaxFaults == 1

\* Number of changes of the world in a behaviour with failures.
FaultEnvOps == 1

\* Number of changes of the world while two invocations run at once.
ConcEnvOps == 1

\* Largest timestamp of the SyncStates committed and loaded on their own.
MaxStamp == 2

\* Number of sync invocations in a behaviour that follows a failed transfer.
RetryRuns == 3

(* ------------------------------ strings ------------------------------- *)

\* The canonicalized folder given to `sync` (folder_to_sync).
Root == <<"/", "r">>

\* format!("{}/.cloudfiles", folder_to_sync) without the root.
StateFileRel == <<"/", ".", "c", "l", "o", "u", "d", "f", "i", "l", "e", "s">>

StateFilePath == Root \o StateFileRel

\* Paths, relative to the root, of the files the user and other clients
\* work on: an ordinary nested file, and a file inside a directory whose
\* name repeats the root's.
Plain == <<"/", "d", "/", "b">>

Nested == <<"/", "r", "/", "b">>

Digits == <<"0", "1", "2", "3", "4", "5", "6", "7", "8", "9">>

\* Display of a u64 ({} in writeln!).
RECURSIVE ToDec(_)
ToDec(n) == IF n < 10 THEN <<Digits[n + 1]>>
            ELSE ToDec(n \div 10) \o <<Digits[(n % 10) + 1]>>

IsDigit(c) == \E i \in 1..10 : Digits[i] = c

DigitVal(c) == IF IsDigit(c) THEN (CHOOSE i \in 1..10 : Digits[i] = c) - 1 ELSE 0

RECURSIVE DecVal(_)
DecVal(s) == IF s = <<>> THEN 0
             ELSE 10 * DecVal(SubSeq(s, 1, Len(s) - 1)) + DigitVal(s[Len(s)])

\* str::parse::<u64>: an optional '+', then one or more digits.
ParseOk(s) ==
    LET body == IF s # <<>> /\ s[1] = "+" THEN Tail(s) ELSE s
    IN  body # <<>> /\ \A i \in 1..Len(body) : IsDigit(body[i])

ParseU64(s) == DecVal(IF s[1] = "+" THEN Tail(s) ELSE s)

\* Index of the first occurrence of pat in s at or after position from; 0 if none.
FindFrom(s, pat, from) ==
    LET hits == { i \in from..(Len(s) - Len(pat) + 1) :
                    SubSeq(s, i, i + Len(pat) - 1) = pat }
    IN  IF hits = {} THEN 0 ELSE CHOOSE i \in hits : \A j \in hits : i <= j

\* s.split(pat).last().unwrap(): what follows the last match of a
\* left-to-right scan for non-overlapping matches.
RECURSIVE SplitLast(_, _)
SplitLast(s, pat) ==
    LET i == FindFrom(s, pat, 1)
    IN  IF i = 0 THEN s
        ELSE SplitLast(SubSeq(s, i + Len(pat), Len(s)), pat)

\* s.rsplit_once("/").unwrap().0: what precedes the last '/'.
ParentOf(s) ==
    LET idx == { i \in 1..Len(s) : s[i] = "/" }
        last == CHOOSE i \in idx : \A j \in idx : j <= i
    IN  SubSeq(s, 1, last - 1)

\* The filesystem's reading of a path: repeated separators count once and a
\* trailing one is dropped.
RECURSIVE NormPath(_)
NormPath(s) ==
    IF Len(s) >= 2 /\ s[Len(s)] = "/" THEN NormPath(SubSeq(s, 1, Len(s) - 1))
    ELSE LET i == FindFrom(s, <<"/", "/">>, 1)
         IN  IF i = 0 THEN s
             ELSE NormPath(SubSeq(s, 1, i) \o SubSeq(s, i + 2, Len(s)))

\* The directories create_dir_all makes for dir: dir and its ancestors
\* below the root.
RECURSIVE DirsUpTo(_)
DirsUpTo(dir) ==
    IF Len(dir) <= Len(Root) THEN {}
    ELSE {dir} \cup DirsUpTo(ParentOf(dir))

\* A set of sequences as a sequence, in a fixed order.
RECURSIVE SetToSeq(_)
SetToSeq(S) ==
    IF S = {} THEN <<>>
    ELSE LET x == CHOOSE y \in S : TRUE
         IN  <<x>> \o SetToSeq(S \ {x})

\* A map as a function with a finite domain.
EmptyMap == <<>>

Put(m, k, v) == [x \in (DOMAIN m) \cup {k} |-> IF x = k THEN v ELSE m[x]]

Del(m, k) == [x \in (DOMAIN m) \ {k} |-> m[x]]

Has(m, k) == k \in DOMAIN m

(* ------------------------------- state -------------------------------- *)

VARIABLES
    now,        \* the wall clock, in whole seconds (timestamp())
    disk,       \* regular files below the root: absolute path -> [mtime, data]
    dirs,       \* directories below the root
    remote,     \* the drive: path -> [id, mtime, data]
    remoteLog,  \* the drive's change feed, oldest change first
    nextId,     \* the next item id the drive hands out
    config,     \* the account as stored in ~/.config/cloudsync.json
    procs,      \* the sync_files invocations that may run
    live,       \* whether the world changes while an invocation runs
    budget,     \* how many changes, failures and invocations the behaviour may hold
    userRel,    \* the relative paths the user and other clients work on
    run,        \* per invocation: position and locals of sync_files
    runs,       \* invocations started so far
    envOps,     \* changes made so far by the user and other clients
    faults,     \* failures injected so far
    streak,     \* completed undisturbed runs in a row (observation only)
    probe       \* the argument and the result of a function applied on its own

vars == <<now, disk, dirs, remote, remoteLog, nextId, config, procs, live, budget, userRel, probe, run,
          runs, envOps, faults, streak>>

\* Seconds a token stays valid after it is issued (expires_in).
TokenLife == 1

UserFiles == { Root \o r : r \in userRel }

\* File contents are sequences of lines.
LocalData == << <<"L">> >>

RemoteData == << <<"R">> >>

\* A line no commit writes: no ':' in it.
GarbageNoColon == << <<"x">> >>

\* A line whose part before the ':' is not a number.
GarbageNoNumber == << <<"x", ":", "/", "d", "/", "b">> >>

\* Item ids of the drive (OneDriveItem.id): never a path.
ItemId(n) == <<"i", "d">> \o ToDec(n)

\* The value of run[p] between invocations.
IdleRun ==
    [ pc |-> "idle", fresh |-> FALSE,
      account |-> [last_synced |-> 0, attributes |-> EmptyMap, valid_till |-> 0],
      cloudfiles |-> EmptyMap, local_files |-> EmptyMap,
      deltas |-> <<>>, i |-> 0, todo |-> {}, linked |-> FALSE,
      downloaded_count |-> 0, uploaded_count |-> 0,
      deleted_local_count |-> 0, deleted_cloud_count |-> 0,
      delete_calls |-> {}, logged |-> 0,
      before |-> 0, scanned |-> {}, loaded |-> EmptyMap, opened |-> <<>>, applied |-> {},
      got |-> {}, sent |-> {}, failed_down |-> {}, failed_up |-> {},
      missed_down |-> {}, missed_up |-> {},
      failed_del |-> {}, missed_del |-> {}, edited |-> {}, fresh_got |-> {},
      result |-> "none", errAt |-> "none", clean |-> TRUE,
      ev |-> [op |-> "none", path |-> <<>>] ]

\* The outcomes of an operation that can fail.
Outcomes == IF faults < budget.faults THEN {TRUE, FALSE} ELSE {TRUE}

Charge(ok) == IF ok THEN faults ELSE faults + 1

Running(p) == run[p].pc # "idle"

\* The drive before the first sync: holding the files of paths, written at
\* time t by another client. parse_iso_date gives 0 for the epoch and for
\* the first instant of an earlier year (lib.rs 519-576).
RECURSIVE DriveWith(_, _)
DriveWith(paths, t) ==
    IF paths = {} THEN [remote |-> EmptyMap, log |-> <<>>]
    ELSE LET path == CHOOSE x \in paths : TRUE
             rest == DriveWith(paths \ {path}, t)
         IN  [remote |-> Put(rest.remote, path,
                             [id |-> ItemId(Len(rest.log) + 1), mtime |-> t,
                              data |-> RemoteData]),
              log |-> Append(rest.log, [file_path |-> path, last_modified |-> t,
                                        deleted |-> FALSE])]

\* The folders the model syncs: one where the root's path does not recur
\* below the root, one where it does.
Worlds == {{Plain}, {Nested}}

\* `save` stored the account with last_synced 0 and no attributes
\* (lib.rs 161-166); nothing is synced yet. The folder and the drive may
\* already hold files.
InitWorld(isLive, invocations, worlds, limits) ==
    /\ now = 1
    /\ userRel \in worlds
    /\ \E here \in SUBSET userRel, there \in SUBSET userRel, t \in 0..1 :
        /\ disk = [f \in { Root \o r : r \in here } |->
                      [mtime |-> 1, data |-> LocalData]]
        /\ dirs = UNION { DirsUpTo(ParentOf(Root \o r)) : r \in here }
        /\ remote = DriveWith(there, t).remote
        /\ remoteLog = DriveWith(there, t).log
        /\ nextId = Cardinality(there) + 1
    /\ config = [last_synced |-> 0, attributes |-> EmptyMap, valid_till |-> TokenLife]
    /\ procs = invocations
    /\ live = isLive
    /\ budget = limits
    /\ probe = <<>>
    /\ run = [p \in {1, 2} |-> IdleRun]
    /\ runs = 0
    /\ envOps = 0
    /\ faults = 0
    /\ streak = 0

\* One invocation at a time, a world that changes between invocations, and
\* no failure of the disk or the network.
Init == InitWorld(FALSE, {1}, Worlds, [env |-> MaxEnvOps, faults |-> 0, runs |-> MaxRuns])

\* The same with failures of the disk and the network.
InitFaults ==
    InitWorld(FALSE, {1}, Worlds, [env |-> FaultEnvOps, faults |-> MaxFaults, runs |-> MaxRuns])

\* Two invocations at once on the folder whose paths are plain, in a world
\* that changes while they run, with no failure of the disk or the network.
InitConc == InitWorld(TRUE, {1, 2}, {{Plain}}, [env |-> ConcEnvOps, faults |-> 0, runs |-> MaxRuns])

\* Three invocations in a row in the folder whose paths are plain, with two
\* changes of the world between them and no injected failure: a sync that
\* tracks a file, one whose remote delete of it fails, and one that follows
\* a change on the drive.
InitDelete ==
    InitWorld(FALSE, {1}, {{Plain}}, [env |-> MaxEnvOps, faults |-> 0, runs |-> RetryRuns])

\* Three invocations in a row in the folder whose paths are plain, with
\* failures: enough for a sync that tracks a file, one that fails on it and
\* one that follows.
InitRetry ==
    InitWorld(FALSE, {1}, {{Plain}}, [env |-> FaultEnvOps, faults |-> MaxFaults, runs |-> RetryRuns])

\* The paths of the SyncStates that are committed and loaded on their own:
\* plain, with a ':', with a line feed, with a carriage return at the end.
KeyPool == { <<"/", "b">>, <<"/", "a", ":", "b">>, <<"/", "a", "\n", "b">>, <<"/", "a", "\r">> }

\* A sync about to commit a SyncState, any over KeyPool with times up to
\* MaxStamp; probe keeps the SyncState for the comparison.
InitRoundTrip ==
    /\ now = 1
    /\ userRel = {Plain}
    /\ disk = [f \in {StateFilePath} |-> [mtime |-> 1, data |-> <<>>]]
    /\ dirs = {}
    /\ remote = EmptyMap
    /\ remoteLog = <<>>
    /\ nextId = 1
    /\ config = [last_synced |-> 0, attributes |-> EmptyMap, valid_till |-> TokenLife]
    /\ procs = {1}
    /\ live = FALSE
    /\ budget = [env |-> 0, faults |-> 0, runs |-> MaxRuns]
    /\ \E keys \in SUBSET KeyPool :
        \E cf \in [keys -> 0..MaxStamp] :
            /\ probe = cf
            /\ run = [p \in {1, 2} |->
                        IF p = 1
                        THEN [IdleRun EXCEPT !.pc = "commit", !.cloudfiles = cf,
                                             !.account = config, !.linked = TRUE,
                                             !.scanned = {StateFilePath},
                                             !.local_files = [f \in {StateFilePath} |-> 1]]
                        ELSE IdleRun]
    /\ runs = 1
    /\ envOps = 0
    /\ faults = 0
    /\ streak = 0

\* The world may change only between invocations unless it is live.
MayChange == envOps < budget.env /\ (live \/ \A q \in procs : ~Running(q))

(* ---------------------------- environment ----------------------------- *)

\* A change of the world disturbs every invocation in progress.
Disturbed ==
    [p \in DOMAIN run |->
        [run[p] EXCEPT !.clean = IF Running(p) THEN FALSE ELSE @,
                       !.missed_down = {}, !.missed_up = {}, !.fresh_got = {}]]

Tick ==
    /\ now < MaxTime
    /\ now' = now + 1
    /\ UNCHANGED <<disk, dirs, remote, remoteLog, nextId, config, procs, live, budget, userRel, probe, run,
                   runs, envOps, faults, streak>>

\* The user creates or rewrites a file below the root.
LocalWrite ==
    /\ MayChange
    /\ \E f \in UserFiles :
        /\ disk' = Put(disk, f, [mtime |-> now, data |-> LocalData])
        /\ dirs' = dirs \cup DirsUpTo(ParentOf(f))
        /\ run' = [p \in DOMAIN run |->
                     [Disturbed[p] EXCEPT !.edited = IF Running(p) THEN @ ELSE @ \cup {f}]]
    /\ envOps' = envOps + 1
    /\ streak' = 0
    /\ UNCHANGED <<now, remote, remoteLog, nextId, config, procs, live, budget, userRel, probe, runs, faults>>

\* The user removes a file below the root.
LocalRemove ==
    /\ MayChange
    /\ \E f \in (DOMAIN disk) \cap UserFiles : disk' = Del(disk, f)
    /\ envOps' = envOps + 1
    /\ run' = Disturbed
    /\ streak' = 0
    /\ UNCHANGED <<now, dirs, remote, remoteLog, nextId, config, procs, live, budget, userRel, probe, runs, faults>>

\* Something other than a commit rewrites the state file.
CorruptStateFile ==
    /\ MayChange
    /\ Has(disk, StateFilePath)
    /\ \E g \in {GarbageNoColon, GarbageNoNumber} :
        disk' = Put(disk, StateFilePath, [mtime |-> now, data |-> g])
    /\ envOps' = envOps + 1
    /\ run' = Disturbed
    /\ streak' = 0
    /\ UNCHANGED <<now, dirs, remote, remoteLog, nextId, config, procs, live, budget, userRel, probe, runs, faults>>

\* The drive's PUT of a file: creates the item or replaces its content.
DrivePut(path, data) ==
    LET id == IF Has(remote, path) THEN remote[path].id ELSE ItemId(nextId)
    IN  /\ remote' = Put(remote, path, [id |-> id, mtime |-> now, data |-> data])
        /\ remoteLog' = Append(remoteLog,
                               [file_path |-> path, last_modified |-> now, deleted |-> FALSE])
        /\ nextId' = IF Has(remote, path) THEN nextId ELSE nextId + 1

\* The drive's removal of the item at path.
DriveRemove(path) ==
    /\ remote' = Del(remote, path)
    /\ remoteLog' = Append(remoteLog,
                           [file_path |-> path, last_modified |-> now, deleted |-> TRUE])
    /\ UNCHANGED nextId

\* Another client creates or rewrites a file on the drive.
RemoteWrite ==
    /\ MayChange
    /\ \E r \in userRel : DrivePut(r, RemoteData)
    /\ envOps' = envOps + 1
    /\ run' = Disturbed
    /\ streak' = 0
    /\ UNCHANGED <<now, disk, dirs, config, procs, live, budget, userRel, probe, runs, faults>>

\* Another client removes a file from the drive.
RemoteRemove ==
    /\ MayChange
    /\ \E r \in (DOMAIN remote) \cap userRel : DriveRemove(r)
    /\ envOps' = envOps + 1
    /\ run' = Disturbed
    /\ streak' = 0
    /\ UNCHANGED <<now, disk, dirs, config, procs, live, budget, userRel, probe, runs, faults>>

(* ---------------------------- sync_files ------------------------------ *)

\* The kinds of failure a step may suffer, "none" among them.
FaultKinds(S) == IF faults < budget.faults THEN S \cup {"none"} ELSE {"none"}

ChargeKind(k) == IF k = "none" THEN faults ELSE faults + 1

\* The locals of an invocation that has returned: what it returned stays
\* for inspection, with the transfers that failed in a sync that completed;
\* the rest is dropped.
Returned(r, res, at) ==
    [IdleRun EXCEPT !.result = res, !.errAt = at, !.fresh = r.fresh, !.applied = r.applied,
                    !.missed_down = IF res = "ok" THEN r.failed_down ELSE {},
                    !.missed_up = IF res = "ok" THEN r.failed_up ELSE {},
                    !.missed_del = IF res = "ok" THEN r.failed_del ELSE {},
                    !.fresh_got = IF res = "ok" /\ r.fresh THEN r.got ELSE {}]

\* run with p's locals replaced by r.
Upd(p, r) == [run EXCEPT ![p] = r]

\* A step that injects a failure is no longer undisturbed.
Mark(r, failed) == IF failed THEN [r EXCEPT !.clean = FALSE] ELSE r

\* The streak after p returned res.
StreakAfter(r, res) ==
    IF res = "ok" /\ r.clean /\ ~r.fresh THEN streak + 1 ELSE 0

\* What str::lines() makes of one writeln! of text: the pieces between the
\* line feeds, each without a carriage return at its end (lib.rs 299).
RECURSIVE LinesOf(_)
LinesOf(text) ==
    LET i == FindFrom(text, <<"\n">>, 1)
        head == IF i = 0 THEN text ELSE SubSeq(text, 1, i - 1)
        line == IF head # <<>> /\ head[Len(head)] = "\r"
                THEN SubSeq(head, 1, Len(head) - 1) ELSE head
    IN  IF i = 0 THEN <<line>>
        ELSE <<line>> \o LinesOf(SubSeq(text, i + 1, Len(text)))

\* The lines of a file written one writeln! per element of written.
RECURSIVE FileLines(_)
FileLines(written) ==
    IF written = <<>> THEN <<>>
    ELSE LinesOf(Head(written)) \o FileLines(Tail(written))

\* line.split_once(':'): the index of the first ':' or 0.
ColonAt(line) == FindFrom(line, <<":">>, 1)

\* A loader that checks for the ':' only.
BadLineNoColon(line) == ColonAt(line) = 0

\* A line of the state file the loader rejects.
BadLine(line) ==
    \/ ColonAt(line) = 0
    \/ ~ParseOk(SubSeq(line, 1, ColonAt(line) - 1))

\* The loader's map after the first n lines (later lines overwrite).
RECURSIVE LoadLines(_, _)
LoadLines(lines, n) ==
    IF n = 0 THEN EmptyMap
    ELSE LET line == lines[n]
             c == ColonAt(line)
         IN  Put(LoadLines(lines, n - 1),
                 SubSeq(line, c + 1, Len(line)),
                 ParseU64(SubSeq(line, 1, c - 1)))

\* A commit that writes the path first.
FormatLinePathFirst(file_path, last_modified) ==
    file_path \o <<":">> \o ToDec(last_modified)

\* writeln!(cloudfiles_file, "{}:{}", last_modified, file_path)
FormatLine(file_path, last_modified) == ToDec(last_modified) \o <<":">> \o file_path

\* The lines a commit writes for cloudfiles.
FormatLines(cf) ==
    LET keys == SetToSeq(DOMAIN cf)
    IN  [n \in 1..Len(keys) |-> FormatLine(keys[n], cf[keys[n]])]

\* The account of a fresh sync: no last sync, no cursor (lib.rs 272-275).
ResetAccount(acct) == [acct EXCEPT !.last_synced = 0, !.attributes = EmptyMap]

\* sync() loads the account, sync_files starts: token check and refresh,
\* the reset of a fresh sync (lib.rs 266-275).
Start(p) ==
    /\ p \in procs
    /\ run[p].pc = "idle"
    /\ runs < budget.runs
    /\ \E fresh \in BOOLEAN, ok \in Outcomes :
        LET expired == now > config.valid_till
            acct1 == IF expired THEN [config EXCEPT !.valid_till = now + TokenLife]
                     ELSE config
            acct2 == IF fresh THEN ResetAccount(acct1) ELSE acct1
            r == [IdleRun EXCEPT !.fresh = fresh, !.account = acct2, !.clean = ok,
                                 !.before = config.last_synced,
                                 !.applied = run[p].applied,
                                 !.missed_down = run[p].missed_down,
                                 !.missed_up = run[p].missed_up,
                                 !.missed_del = run[p].missed_del,
                                 !.edited = run[p].edited,
                                 !.fresh_got = run[p].fresh_got]
        IN  /\ ok \/ expired
            /\ run' = Upd(p, IF ok THEN [r EXCEPT !.pc = "open"]
                               ELSE Returned(r, "err", "refresh"))
            /\ faults' = Charge(ok)
            /\ streak' = IF ok THEN streak ELSE 0
    /\ runs' = runs + 1
    /\ UNCHANGED <<now, disk, dirs, remote, remoteLog, nextId, config, procs, live, budget, userRel, probe, envOps>>

\* The state file is opened (created when absent), read, and parsed unless
\* the sync is fresh (lib.rs 282-316).
OpenState(p) ==
    /\ p \in procs
    /\ run[p].pc = "open"
    /\ \E ok \in Outcomes :
        LET r == run[p]
            disk1 == IF Has(disk, StateFilePath) THEN disk
                     ELSE Put(disk, StateFilePath, [mtime |-> now, data |-> <<>>])
            lines == FileLines(disk1[StateFilePath].data)
            bad == ~r.fresh /\ \E n \in 1..Len(lines) : BadLine(lines[n])
            cf == IF r.fresh \/ bad THEN EmptyMap ELSE LoadLines(lines, Len(lines))
        IN  /\ disk' = IF ok THEN disk1 ELSE disk
            /\ run' = Upd(p, IF ~ok THEN Returned(Mark(r, TRUE), "err", "open")
                               ELSE IF bad THEN Returned(r, "err", "parse")
                               ELSE [r EXCEPT !.pc = "scan", !.cloudfiles = cf,
                                              !.loaded = cf, !.opened = lines,
                                              !.linked = TRUE])
            /\ faults' = Charge(ok)
            /\ streak' = IF ok /\ ~bad THEN streak ELSE 0
    /\ UNCHANGED <<now, dirs, remote, remoteLog, nextId, config, procs, live, budget, userRel, probe, runs, envOps>>

\* read_dir_rec: every regular file below folder with its modification
\* time in whole seconds (lib.rs 228-251).
read_dir_rec == [f \in DOMAIN disk |-> disk[f].mtime]

\* The scan of the folder (lib.rs 319-321).
Scan(p) ==
    /\ p \in procs
    /\ run[p].pc = "scan"
    /\ \E ok \in Outcomes :
        LET r == run[p]
            lf == read_dir_rec
        IN  /\ run' = Upd(p, IF ~ok THEN Returned(Mark(r, TRUE), "err", "scan")
                               ELSE IF r.fresh
                               THEN [r EXCEPT !.pc = "cleanup", !.local_files = lf,
                                              !.scanned = DOMAIN lf, !.todo = DOMAIN lf]
                               ELSE [r EXCEPT !.pc = "delta", !.local_files = lf,
                                              !.scanned = DOMAIN lf])
            /\ faults' = Charge(ok)
            /\ streak' = IF ok THEN streak ELSE 0
    /\ UNCHANGED <<now, disk, dirs, remote, remoteLog, nextId, config, procs, live, budget, userRel, probe, runs, envOps>>

\* run after the file at path f was unlinked: a handle on the state file
\* no longer refers to the file of that name.
Unlinked(rn, f) ==
    IF f = StateFilePath
    THEN [q \in DOMAIN rn |-> [rn[q] EXCEPT !.linked = FALSE]]
    ELSE rn

\* One remove_file of the fresh sync's cleanup (lib.rs 328-331).
CleanupStep(p) ==
    /\ p \in procs
    /\ run[p].pc = "cleanup"
    /\ \E f \in run[p].todo, ok \in Outcomes :
        LET r == run[p]
            present == Has(disk, f)
        IN  /\ ok \/ present
            /\ IF ok /\ present
               THEN /\ disk' = Del(disk, f)
                    /\ run' = Unlinked(Upd(p, [r EXCEPT !.todo = @ \ {f}]), f)
                    /\ streak' = streak
               ELSE /\ disk' = disk
                    /\ run' = Upd(p, Returned(Mark(r, ~ok), "err", "cleanup"))
                    /\ streak' = 0
            /\ faults' = Charge(ok)
    /\ UNCHANGED <<now, dirs, remote, remoteLog, nextId, config, procs, live, budget, userRel, probe, runs, envOps>>

\* The end of the cleanup: the snapshot is emptied (lib.rs 333).
CleanupDone(p) ==
    /\ p \in procs
    /\ run[p].pc = "cleanup"
    /\ run[p].todo = {}
    /\ run' = Upd(p, [run[p] EXCEPT !.pc = "delta", !.local_files = EmptyMap])
    /\ UNCHANGED <<now, disk, dirs, remote, remoteLog, nextId, config, procs, live, budget, userRel, probe,
                   runs, envOps, faults, streak>>

\* What the drive's delta endpoint returns for the cursor in attrs: with no
\* cursor every item the drive holds, otherwise the changes after the cursor.
DeltaItems(attrs) ==
    IF Has(attrs, "delta_link")
    THEN SubSeq(remoteLog, attrs["delta_link"] + 1, Len(remoteLog))
    ELSE SetToSeq({ [file_path |-> path, last_modified |-> remote[path].mtime,
                     deleted |-> FALSE] : path \in DOMAIN remote })

\* get_drive_delta (onedrive.rs 212-262, 71-106): the changes, and the new
\* cursor stored in the account's attributes. A transport failure panics.
FetchDelta(p) ==
    /\ p \in procs
    /\ run[p].pc = "delta"
    /\ \E ok \in Outcomes :
        LET r == run[p]
            attrs == r.account.attributes
        IN  /\ run' = Upd(p, IF ~ok THEN Returned(Mark(r, TRUE), "panic", "delta")
                               ELSE [r EXCEPT !.pc = "phaseA",
                                              !.deltas = DeltaItems(attrs),
                                              !.i = 1,
                                              !.account.attributes =
                                                  Put(attrs, "delta_link", Len(remoteLog))])
            /\ faults' = Charge(ok)
            /\ streak' = IF ok THEN streak ELSE 0
    /\ UNCHANGED <<now, disk, dirs, remote, remoteLog, nextId, config, procs, live, budget, userRel, probe, runs, envOps>>

(* ------------------------- phase A: the drive ------------------------- *)

\* The delta is skipped: already seen by the last sync (lib.rs 354).
SkipDelta(last_synced, d) == last_synced >= d.last_modified

\* A comparison that takes every local file for absent.
LocalModifiedAbsent(lf, full) == 0

\* local_files.get(&full_file_path).map_or(0, |val| *val) (lib.rs 361)
LocalModified(lf, full) == IF Has(lf, full) THEN lf[full] ELSE 0

\* The drive's time for the comparison (lib.rs 365-369).
CloudModified(fresh, d) == IF fresh THEN now ELSE d.last_modified

\* A comparison the drive wins on a tie.
CloudWinsOnTie(cloud_modified, local_modified) == cloud_modified >= local_modified

\* The drive's side wins (lib.rs 373, 390).
CloudWins(cloud_modified, local_modified) == cloud_modified > local_modified

\* The path of the directory that create_dir_all is given (lib.rs 393).
FullFolderPath(file_path) == Root \o <<"/">> \o ParentOf(file_path)

\* One delta of the loop over the drive's changes (lib.rs 351-422).
PhaseA(p) ==
    /\ p \in procs
    /\ run[p].pc = "phaseA"
    /\ run[p].i <= Len(run[p].deltas)
    /\ \E fault \in FaultKinds({"remove", "mkdir", "download", "write"}) :
        LET r == run[p]
            d == r.deltas[r.i]
            file_path == d.file_path
            full == Root \o file_path
            lf == r.local_files
            cf == r.cloudfiles
            skip == SkipDelta(r.account.last_synced, d)
            wins == CloudWins(CloudModified(r.fresh, d), LocalModified(lf, full))
            next == Mark([r EXCEPT !.i = @ + 1], fault # "none")
            removes == ~skip /\ d.deleted /\ wins
            removed == removes /\ Has(disk, full) /\ fault # "remove"
            fetches == ~skip /\ ~d.deleted /\ wins
            made == fetches /\ fault # "mkdir"
            fetched == made /\ Has(remote, file_path) /\ fault # "download"
            written == fetched /\ fault # "write"
        IN  /\ fault = "remove" => removes /\ Has(disk, full)
            /\ fault = "mkdir" => fetches
            /\ fault = "download" => fetches /\ Has(remote, file_path)
            /\ fault = "write" => fetches /\ Has(remote, file_path)
            /\ disk' = IF removed THEN Del(disk, full)
                       ELSE IF written
                       THEN Put(disk, full, [mtime |-> now, data |-> remote[file_path].data])
                       ELSE disk
            /\ dirs' = IF made THEN dirs \cup DirsUpTo(NormPath(FullFolderPath(file_path)))
                       ELSE dirs
            /\ run' =
                 IF skip THEN
                     Upd(p, [next EXCEPT !.ev = [op |-> "skip", path |-> file_path]])
                 ELSE IF d.deleted THEN
                     IF removed THEN
                         Unlinked(Upd(p, [next EXCEPT
                             !.local_files = Del(lf, full),
                             !.cloudfiles = Del(cf, file_path),
                             !.deleted_local_count = @ + 1,
                             !.ev = [op |-> "remove", path |-> file_path]]), full)
                     ELSE IF removes THEN
                         Upd(p, [next EXCEPT
                             !.cloudfiles = Del(cf, file_path),
                             !.logged = @ + 1,
                             !.ev = [op |-> "remove_failed", path |-> file_path]])
                     ELSE
                         Upd(p, [next EXCEPT
                             !.cloudfiles = Del(cf, file_path),
                             !.ev = [op |-> "keep_local", path |-> file_path]])
                 ELSE IF ~wins THEN
                     Upd(p, [next EXCEPT
                         !.cloudfiles = Del(cf, file_path),
                         !.ev = [op |-> "untrack", path |-> file_path]])
                 ELSE IF ~made THEN
                     Upd(p, Returned(next, "err", "mkdir"))
                 ELSE IF ~fetched THEN
                     Upd(p, [next EXCEPT
                         !.logged = @ + 1,
                         !.failed_down = IF fault = "download"
                                         THEN @ \cup {file_path} ELSE @,
                         !.ev = [op |-> "download_failed", path |-> file_path]])
                 ELSE IF ~written THEN
                     Upd(p, Returned(next, "err", "write"))
                 ELSE
                     Upd(p, [next EXCEPT
                         !.cloudfiles = Put(cf, file_path, now),
                         !.local_files = Put(lf, full, now),
                         !.downloaded_count = @ + 1,
                         !.got = @ \cup {file_path},
                         !.applied = @ \cup {<<file_path, remote[file_path].mtime>>},
                         !.ev = [op |-> "download", path |-> file_path]])
            /\ faults' = ChargeKind(fault)
            /\ streak' = IF fault \in {"mkdir", "write"} THEN 0 ELSE streak
    /\ UNCHANGED <<now, remote, remoteLog, nextId, config, procs, live, budget, userRel, probe, runs, envOps>>

\* The end of the loop over the deltas.
PhaseADone(p) ==
    /\ p \in procs
    /\ run[p].pc = "phaseA"
    /\ run[p].i > Len(run[p].deltas)
    /\ run' = Upd(p, [run[p] EXCEPT !.pc = "phaseB", !.todo = DOMAIN run[p].local_files])
    /\ UNCHANGED <<now, disk, dirs, remote, remoteLog, nextId, config, procs, live, budget, userRel, probe,
                   runs, envOps, faults, streak>>

(* ------------------------ phase B: the folder ------------------------- *)

\* A key that is the whole path of the file.
DriveRelativePathWhole(file_path) == file_path

\* file_path.split(folder_to_sync).last().unwrap() (lib.rs 426, 472)
DriveRelativePath(file_path) == SplitLast(file_path, Root)

\* A test that takes a tracked file with an equal time for modified.
IsFileModifiedOnTie(cf, key, local_modified, last_synced) ==
    /\ Has(cf, key)
    /\ local_modified >= last_synced
    /\ local_modified >= cf[key]

\* is_file_modified (lib.rs 429-431)
IsFileModified(cf, key, local_modified, last_synced) ==
    /\ Has(cf, key)
    /\ local_modified > last_synced
    /\ local_modified > cf[key]

\* The file is read and uploaded (lib.rs 433).
UploadCandidate(cf, key, local_modified, last_synced) ==
    IsFileModified(cf, key, local_modified, last_synced) \/ ~Has(cf, key)

\* One file of the loop over the snapshot (lib.rs 425-462).
PhaseB(p) ==
    /\ p \in procs
    /\ run[p].pc = "phaseB"
    /\ \E f \in run[p].todo, fault \in FaultKinds({"read", "upload"}) :
        LET r == run[p]
            cf == r.cloudfiles
            key == DriveRelativePath(f)
            candidate == UploadCandidate(cf, key, r.local_files[f], r.account.last_synced)
            read == candidate /\ Has(disk, f) /\ fault # "read"
            uploaded == read /\ fault # "upload"
            next == Mark([r EXCEPT !.todo = @ \ {f}], fault # "none")
        IN  /\ fault = "read" => candidate /\ Has(disk, f)
            /\ fault = "upload" => candidate /\ Has(disk, f)
            /\ IF uploaded
               THEN DrivePut(key, disk[f].data)
               ELSE UNCHANGED <<remote, remoteLog, nextId>>
            /\ run' =
                 IF ~candidate THEN
                     Upd(p, [next EXCEPT !.ev = [op |-> "no_upload", path |-> key]])
                 ELSE IF ~read THEN
                     Upd(p, [next EXCEPT !.logged = @ + 1,
                                         !.failed_up = @ \cup {f},
                                         !.ev = [op |-> "read_failed", path |-> key]])
                 ELSE IF ~uploaded THEN
                     Upd(p, [next EXCEPT !.logged = @ + 1,
                                         !.failed_up = @ \cup {f},
                                         !.ev = [op |-> "upload_failed", path |-> key]])
                 ELSE
                     Upd(p, [next EXCEPT !.cloudfiles = Put(cf, key, now),
                                         !.uploaded_count = @ + 1,
                                         !.sent = @ \cup {f},
                                         !.ev = [op |-> "upload", path |-> key]])
            /\ faults' = ChargeKind(fault)
    /\ UNCHANGED <<now, disk, dirs, config, procs, live, budget, userRel, probe, runs, envOps, streak>>

\* The end of the loop over the snapshot; cloudfiles is copied (lib.rs 466).
PhaseBDone(p) ==
    /\ p \in procs
    /\ run[p].pc = "phaseB"
    /\ run[p].todo = {}
    /\ run' = Upd(p, [run[p] EXCEPT !.pc = "phaseC", !.todo = DOMAIN run[p].cloudfiles])
    /\ UNCHANGED <<now, disk, dirs, remote, remoteLog, nextId, config, procs, live, budget, userRel, probe,
                   runs, envOps, faults, streak>>

(* ---------------------- phase C: local deletions ---------------------- *)

\* The paths of the drive whose item has the id cloud_id: what
\* DELETE /me/drive/items/{cloud_id} addresses (onedrive.rs 196-199).
ItemsWithId(cloud_id) == { path \in DOMAIN remote : remote[path].id = cloud_id }

\* A SyncState that drops the entry whose remote delete failed.
DeleteFailedDropped(cf, key) == Del(cf, key)

\* The SyncState after a remote delete that failed: the Err arm only logs
\* (lib.rs 483-485).
DeleteFailed(cf, key) == cf

\* One entry of the loop over the copy of cloudfiles (lib.rs 467-488).
PhaseC(p) ==
    /\ p \in procs
    /\ run[p].pc = "phaseC"
    /\ \E k \in run[p].todo, ok \in Outcomes :
        LET r == run[p]
            full == Root \o k
            missing == ~Has(r.local_files, full)
            arg == DriveRelativePath(k)
            found == ItemsWithId(arg)
            deleted == missing /\ found # {} /\ ok
            next == Mark([r EXCEPT !.todo = @ \ {k}], ~ok)
        IN  /\ ok \/ (missing /\ found # {})
            /\ IF deleted
               THEN DriveRemove(CHOOSE path \in found : TRUE)
               ELSE UNCHANGED <<remote, remoteLog, nextId>>
            /\ run' =
                 IF ~missing THEN
                     Upd(p, [next EXCEPT !.ev = [op |-> "present", path |-> k]])
                 ELSE IF deleted THEN
                     Upd(p, [next EXCEPT
                         !.cloudfiles = Del(r.cloudfiles, arg),
                         !.deleted_cloud_count = @ + 1,
                         !.delete_calls = @ \cup {[key |-> k, cloud_id |-> arg]},
                         !.ev = [op |-> "cloud_delete", path |-> k]])
                 ELSE
                     Upd(p, [next EXCEPT
                         !.cloudfiles = DeleteFailed(r.cloudfiles, arg),
                         !.logged = @ + 1,
                         !.failed_del = @ \cup {k},
                         !.delete_calls = @ \cup {[key |-> k, cloud_id |-> arg]},
                         !.ev = [op |-> "cloud_delete_failed", path |-> k]])
            /\ faults' = Charge(ok)
    /\ UNCHANGED <<now, disk, dirs, config, procs, live, budget, userRel, probe, runs, envOps, streak>>

\* The end of the loop over the copy of cloudfiles.
PhaseCDone(p) ==
    /\ p \in procs
    /\ run[p].pc = "phaseC"
    /\ run[p].todo = {}
    /\ run' = Upd(p, [run[p] EXCEPT !.pc = "commit"])
    /\ UNCHANGED <<now, disk, dirs, remote, remoteLog, nextId, config, procs, live, budget, userRel, probe,
                   runs, envOps, faults, streak>>

(* ------------------------------ commit -------------------------------- *)

\* A commit whose failure is passed over.
AfterCommitIgnored(r, fault) == [r EXCEPT !.pc = "save"]

\* Where the invocation stands after the commit: a failure of set_len or
\* writeln! returns the error (lib.rs 496-498, 505-507).
AfterCommit(r, fault) ==
    IF fault = "none" THEN [r EXCEPT !.pc = "save"]
    ELSE Returned(Mark(r, TRUE), "err", "commit")

\* The state file is truncated and rewritten through the handle opened at
\* the start (lib.rs 495-508). A handle whose file was unlinked writes to a
\* file no path leads to.
\* A state file written after what it held.
WrittenAfter(old, lines, n) == old \o SubSeq(lines, 1, n)

\* set_len(0), seek(Start(0)) and n writeln! that went through
\* (lib.rs 496-508): what the state file holds afterwards.
Written(old, lines, n) == SubSeq(lines, 1, n)

Commit(p) ==
    /\ p \in procs
    /\ run[p].pc = "commit"
    /\ \E fault \in FaultKinds({"set_len", "write"}) :
        LET r == run[p]
            lines == FormatLines(r.cloudfiles)
        IN  /\ fault = "write" => Len(lines) > 0
            /\ \E n \in 0..Len(lines) :
                /\ fault = "none" => n = Len(lines)
                /\ fault = "write" => n < Len(lines)
                /\ fault = "set_len" => n = 0
                /\ disk' = IF r.linked /\ fault # "set_len"
                           THEN Put(disk, StateFilePath,
                                    [mtime |-> now,
                                     data |-> Written(IF Has(disk, StateFilePath)
                                                      THEN disk[StateFilePath].data
                                                      ELSE <<>>, lines, n)])
                           ELSE disk
            /\ run' = Upd(p, AfterCommit(r, fault))
            /\ faults' = ChargeKind(fault)
            /\ streak' = IF fault = "none" THEN streak ELSE 0
    /\ UNCHANGED <<now, dirs, remote, remoteLog, nextId, config, procs, live, budget, userRel, probe, runs, envOps>>

\* An account saved with the time elapsed since its last sync.
SyncedElapsed(acct) == [acct EXCEPT !.last_synced = now - acct.last_synced]

\* account.last_synced = timestamp() (lib.rs 512)
Synced(acct) == [acct EXCEPT !.last_synced = now]

\* account.last_synced = timestamp(); save_account (lib.rs 511-515, 182-213).
SaveAccount(p) ==
    /\ p \in procs
    /\ run[p].pc = "save"
    /\ \E ok \in Outcomes :
        LET r == run[p]
            acct == Synced(r.account)
            done == [r EXCEPT !.account = acct]
        IN  /\ config' = IF ok THEN acct ELSE config
            /\ run' = Upd(p, IF ok THEN Returned(done, "ok", "none")
                               ELSE Returned(Mark(done, TRUE), "err", "save"))
            /\ faults' = Charge(ok)
            /\ streak' = StreakAfter(IF ok THEN r ELSE Mark(r, TRUE), IF ok THEN "ok" ELSE "err")
    /\ UNCHANGED <<now, disk, dirs, remote, remoteLog, nextId, procs, live, budget, userRel, probe, runs, envOps>>

(* --------------------------- specification ---------------------------- *)

Env ==
    \/ Tick
    \/ LocalWrite
    \/ LocalRemove
    \/ CorruptStateFile
    \/ RemoteWrite
    \/ RemoteRemove

Next ==
    \/ Env
    \/ \E p \in procs : Start(p)
    \/ \E p \in procs : OpenState(p)
    \/ \E p \in procs : Scan(p)
    \/ \E p \in procs : CleanupStep(p)
    \/ \E p \in procs : CleanupDone(p)
    \/ \E p \in procs : FetchDelta(p)
    \/ \E p \in procs : PhaseA(p)
    \/ \E p \in procs : PhaseADone(p)
    \/ \E p \in procs : PhaseB(p)
    \/ \E p \in procs : PhaseBDone(p)
    \/ \E p \in procs : PhaseC(p)
    \/ \E p \in procs : PhaseCDone(p)
    \/ \E p \in procs : Commit(p)
    \/ \E p \in procs : SaveAccount(p)

Spec == Init /\ [][Next]_vars

SpecFaults == InitFaults /\ [][Next]_vars

SpecRetry == InitRetry /\ [][Next]_vars

\* The steps of two invocations at once and the changes of the world while
\* they run, all within one second of the clock.
NextConc ==
    \/ LocalWrite
    \/ LocalRemove
    \/ RemoteWrite
    \/ RemoteRemove
    \/ \E p \in procs : Start(p)
    \/ \E p \in procs : OpenState(p)
    \/ \E p \in procs : Scan(p)
    \/ \E p \in procs : CleanupStep(p)
    \/ \E p \in procs : CleanupDone(p)
    \/ \E p \in procs : FetchDelta(p)
    \/ \E p \in procs : PhaseA(p)
    \/ \E p \in procs : PhaseADone(p)
    \/ \E p \in procs : PhaseB(p)
    \/ \E p \in procs : PhaseBDone(p)
    \/ \E p \in procs : PhaseC(p)
    \/ \E p \in procs : PhaseCDone(p)
    \/ \E p \in procs : Commit(p)
    \/ \E p \in procs : SaveAccount(p)

SpecDelete == InitDelete /\ [][Next]_vars

SpecConc == InitConc /\ [][NextConc]_vars

\* The commit of a sync and the load of the next.
NextRoundTrip ==
    \/ Commit(1)
    \/ SaveAccount(1)
    \/ Start(1)
    \/ OpenState(1)

SpecRoundTrip == InitRoundTrip /\ [][NextRoundTrip]_vars

(* ------------------------- parse_iso_date ----------------------------- *)

\* s.split(c): the pieces of s between the occurrences of the character c.
RECURSIVE Split(_, _)
Split(s, c) ==
    LET i == FindFrom(s, <<c>>, 1)
    IN  IF i = 0 THEN <<s>>
        ELSE <<SubSeq(s, 1, i - 1)>> \o Split(SubSeq(s, i + 1, Len(s)), c)

\* The u64 days * 86400 + rest, kept as its digits in base 100 (all but the
\* last, and the last) so that the years after 2037 stay within the
\* integers of the evaluation.
Wide(days, rest) == [high |-> days * 864 + rest \div 100, low |-> rest % 100]

\* A year's length by the rule of four alone for the centuries.
days_per_year_no_400(year) ==
    IF year % 4 = 0 /\ year % 100 # 0 THEN 366 ELSE 365

\* fn days_per_year (lib.rs 535-541)
days_per_year(year) ==
    IF (year % 4 = 0 /\ year % 100 # 0) \/ year % 400 = 0 THEN 366 ELSE 365

\* fn days_per_month (lib.rs 543-564), for month in 1..12
days_per_month(month, year) ==
    CASE month = 2 -> IF days_per_year(year) = 365 THEN 28 ELSE 29
      [] month \in {4, 6, 9, 11} -> 30
      [] OTHER -> 31

\* for y in 1970..year { days_since_epoch += days_per_year(y) } (lib.rs 566-569)
\* The sum over y in first..(year - 1), added up by halves of the range.
RECURSIVE DaysOfYears(_, _)
DaysOfYears(first, year) ==
    IF first >= year THEN 0
    ELSE IF first + 1 = year THEN days_per_year(first)
    ELSE LET mid == (first + year) \div 2
         IN  DaysOfYears(first, mid) + DaysOfYears(mid, year)

\* for m in 1..month { days_in_year_so_far += days_per_month(m, year) }
\* (lib.rs 571-574)
RECURSIVE DaysOfMonths(_, _, _)
DaysOfMonths(m, month, year) ==
    IF m >= month THEN 0
    ELSE days_per_month(m, year) + DaysOfMonths(m + 1, month, year)

\* fn parse_iso_date (lib.rs 519-580), for a string every unwrap of which
\* succeeds.
parse_iso_date(date_time_str) ==
    LET t == FindFrom(date_time_str, <<"T">>, 1)
        date_str == SubSeq(date_time_str, 1, t - 1)
        time_str == SubSeq(date_time_str, t + 1, Len(date_time_str))
        date_tokens == Split(date_str, "-")
        year == ParseU64(date_tokens[1])
        month == ParseU64(date_tokens[2])
        date == ParseU64(date_tokens[3])
        time_tokens == Split(time_str, ":")
        hours == ParseU64(time_tokens[1])
        minutes == ParseU64(time_tokens[2])
        seconds_str == SubSeq(time_tokens[3], 1, 2)
        seconds == ParseU64(seconds_str)
        days_since_epoch == DaysOfYears(1970, year)
                              + DaysOfMonths(1, month, year) + (date - 1)
    IN  Wide(days_since_epoch, hours * 3600 + minutes * 60 + seconds)

\* n in decimal, with zeros in front up to width digits.
RECURSIVE Pad(_, _)
Pad(n, width) ==
    IF width <= 1 THEN <<Digits[(n % 10) + 1]>>
    ELSE Pad(n \div 10, width - 1) \o <<Digits[(n % 10) + 1]>>

\* The lastModifiedDateTime the drive sends for a moment (onedrive.rs 247):
\* YYYY-MM-DDThh:mm:ss, a fraction of a second or none, and Z.
IsoString(m) ==
    Pad(m.year, 4) \o <<"-">> \o Pad(m.month, 2) \o <<"-">> \o Pad(m.date, 2)
        \o <<"T">> \o Pad(m.hours, 2) \o <<":">> \o Pad(m.minutes, 2)
        \o <<":">> \o Pad(m.seconds, 2) \o m.fraction \o <<"Z">>

\* The calendar of the dates the drive sends.
IsLeap(y) == (y % 4 = 0 /\ y % 100 # 0) \/ y % 400 = 0

MonthDays(m, y) ==
    IF m = 2 THEN (IF IsLeap(y) THEN 29 ELSE 28)
    ELSE IF m \in {4, 6, 9, 11} THEN 30 ELSE 31

\* The years, the days of a month, the times of day and the fractions of
\* the moments that are parsed.
DateYears == {1970, 1972, 1999, 2000, 2023, 2024, 2037, 2100}

DateDays(m, y) == {1, 6, 28, MonthDays(m, y)}

DateTimes == { <<0, 0, 0>>, <<13, 23, 0>>, <<23, 59, 59>> }

DateFractions == { <<>>, <<".", "0", "9", "3">> }

\* The moment one day after.
DayAfter(m) ==
    IF m.date < MonthDays(m.month, m.year) THEN [m EXCEPT !.date = @ + 1]
    ELSE IF m.month < 12 THEN [m EXCEPT !.date = 1, !.month = @ + 1]
    ELSE [m EXCEPT !.date = 1, !.month = 1, !.year = @ + 1]

\* A moment to parse: its fields, the string the drive sends for it, what
\* parse_iso_date returned for it (once parsed) and for the day before it
\* (when nth = 1).
InitDates ==
    /\ now = 1
    /\ userRel = {Plain}
    /\ disk = EmptyMap
    /\ dirs = {}
    /\ remote = EmptyMap
    /\ remoteLog = <<>>
    /\ nextId = 1
    /\ config = [last_synced |-> 0, attributes |-> EmptyMap, valid_till |-> TokenLife]
    /\ procs = {1}
    /\ live = FALSE
    /\ budget = [env |-> 0, faults |-> 0, runs |-> 0]
    /\ run = [p \in {1, 2} |-> IdleRun]
    /\ runs = 0
    /\ envOps = 0
    /\ faults = 0
    /\ streak = 0
    /\ \E y \in DateYears, m \in 1..12, t \in DateTimes, f \in DateFractions :
        \E d \in DateDays(m, y) :
            LET moment == [year |-> y, month |-> m, date |-> d, hours |-> t[1],
                           minutes |-> t[2], seconds |-> t[3], fraction |-> f]
            IN  probe = [moment |-> moment, input |-> IsoString(moment),
                         parsed |-> FALSE, result |-> Wide(0, 0),
                         nth |-> 0, previous |-> Wide(0, 0)]

\* parse_iso_date is applied to the string.
ParseDate ==
    /\ ~probe.parsed
    /\ probe' = [probe EXCEPT !.parsed = TRUE, !.result = parse_iso_date(probe.input)]
    /\ UNCHANGED <<now, disk, dirs, remote, remoteLog, nextId, config, procs, live,
                   budget, userRel, run, runs, envOps, faults, streak>>

\* The same time one day after is taken up.
TakeDayAfter ==
    /\ probe.parsed
    /\ probe.nth = 0
    /\ probe' = [moment |-> DayAfter(probe.moment),
                 input |-> IsoString(DayAfter(probe.moment)),
                 parsed |-> FALSE, result |-> Wide(0, 0),
                 nth |-> 1, previous |-> probe.result]
    /\ UNCHANGED <<now, disk, dirs, remote, remoteLog, nextId, config, procs, live,
                   budget, userRel, run, runs, envOps, faults, streak>>

NextDates ==
    \/ ParseDate
    \/ TakeDayAfter

SpecDates == InitDates /\ [][NextDates]_vars

(* ------------------------------- claims ------------------------------- *)

\* p takes a step of the loop over the deltas and stays in the loop.
PhaseAStepped(p) ==
    /\ run[p].pc = "phaseA"
    /\ run[p].i <= Len(run[p].deltas)
    /\ run'[p].pc = "phaseA"
    /\ run'[p].i = run[p].i + 1

\* p takes the step of the loop over the snapshot that handles file f.
PhaseBSteppedOn(p, f) ==
    /\ run[p].pc = "phaseB"
    /\ f \in run[p].todo
    /\ run'[p].pc = "phaseB"
    /\ run'[p].todo = run[p].todo \ {f}

\* The delta p is about to handle, and the local file it names.
CurrentDelta(p) == run[p].deltas[run[p].i]

CurrentFull(p) == Root \o CurrentDelta(p).file_path

\* The file at path f is the same file with the same content after the step.
Untouched(f) == Has(disk, f) => (Has(disk', f) /\ disk'[f] = disk[f])

\* C1. Idempotence: a second sync with fresh=false that follows a completed
\* sync with fresh=false, with no change of the folder or the drive since
\* the first began and no failure of the disk or the network, issues no
\* download, no upload, no local delete and no remote delete.
C1_Idempotence ==
    \A p \in procs :
        (run[p].pc = "save" /\ streak >= 1 /\ ~run[p].fresh /\ run[p].clean)
            => /\ run[p].downloaded_count = 0
               /\ run[p].uploaded_count = 0
               /\ run[p].deleted_local_count = 0
               /\ run[p].deleted_cloud_count = 0
               /\ run[p].delete_calls = {}

\* The delta about to be handled passed the last_synced filter and is not
\* newer than the local file of the snapshot.
LosingDelta(p) ==
    /\ ~run[p].fresh
    /\ run[p].account.last_synced < CurrentDelta(p).last_modified
    /\ Has(run[p].local_files, CurrentFull(p))
    /\ CurrentDelta(p).last_modified <= run[p].local_files[CurrentFull(p)]

\* C2. The more recent side wins in phase A: a delta (Deleted or
\* CreatedOrModified) of a non-fresh sync that passes the last_synced filter
\* and is not newer than the local file of the snapshot leaves the local
\* file as it is, and its key is removed from the SyncState.
C2_RecentSideWins ==
    [][\A p \in procs :
        (PhaseAStepped(p) /\ LosingDelta(p))
            => /\ Untouched(CurrentFull(p))
               /\ ~Has(run'[p].cloudfiles, CurrentDelta(p).file_path)]_vars

\* A Deleted delta lost against a local file that is at least as recent.
C2_Witness ==
    \E p \in procs :
        /\ run[p].pc = "phaseA"
        /\ ~run[p].fresh
        /\ run[p].ev.op = "keep_local"
        /\ Has(disk, Root \o run[p].ev.path)
        /\ Has(run[p].loaded, run[p].ev.path)

\* The delta about to be handled is a CreatedOrModified one whose time is
\* the local file's.
TiedDelta(p) ==
    /\ ~run[p].fresh
    /\ ~CurrentDelta(p).deleted
    /\ run[p].account.last_synced < CurrentDelta(p).last_modified
    /\ Has(run[p].local_files, CurrentFull(p))
    /\ CurrentDelta(p).last_modified = run[p].local_files[CurrentFull(p)]

\* C3. Conflict tie-break: a CreatedOrModified delta with last_modified = T,
\* T > account.last_synced, against a local file with local_modified = T
\* (the sync not being fresh, where the drive's time is the clock's):
\* nothing is downloaded and the path has no SyncState entry afterwards.
C3_TieBreak ==
    [][\A p \in procs :
        (PhaseAStepped(p) /\ TiedDelta(p))
            => /\ run'[p].downloaded_count = run[p].downloaded_count
               /\ disk' = disk
               /\ run'[p].local_files = run[p].local_files
               /\ ~Has(run'[p].cloudfiles, CurrentDelta(p).file_path)]_vars

\* A tie was handled: the delta just passed has the time of the local file.
C3_Witness ==
    \E p \in procs :
        /\ run[p].pc = "phaseA"
        /\ run[p].i > 1
        /\ ~run[p].fresh
        /\ run[p].ev.op = "untrack"
        /\ LET d == run[p].deltas[run[p].i - 1]
           IN  /\ Has(run[p].local_files, Root \o d.file_path)
               /\ run[p].local_files[Root \o d.file_path] = d.last_modified

\* The path of f relative to the root.
RelativeTo(f) == SubSeq(f, Len(Root) + 1, Len(f))

\* File f of the snapshot has a time equal to that of a delta of its path,
\* to account.last_synced, or to its SyncState entry.
EqualTimes(p, f) ==
    LET r == run[p]
        lm == r.local_files[f]
    IN  \/ \E j \in 1..Len(r.deltas) :
              /\ r.deltas[j].file_path = RelativeTo(f)
              /\ r.deltas[j].last_modified = lm
        \/ lm = r.account.last_synced
        \/ Has(r.cloudfiles, RelativeTo(f)) /\ lm = r.cloudfiles[RelativeTo(f)]

\* C4 as stated. Equal timestamps never trigger a transfer: in a non-fresh
\* sync a path whose delta has the local file's time, or whose local time is
\* account.last_synced or its SyncState entry's, is not downloaded, not
\* uploaded and not deleted in any phase.
C4_EqualNeverTransfers ==
    [][\A p \in procs :
        /\ (PhaseAStepped(p) /\ LosingDelta(p)
              /\ CurrentDelta(p).last_modified = run[p].local_files[CurrentFull(p)])
            => disk' = disk
        /\ \A f \in run[p].todo :
            (PhaseBSteppedOn(p, f) /\ ~run[p].fresh /\ EqualTimes(p, f))
                => /\ run'[p].uploaded_count = run[p].uploaded_count
                   /\ remote' = remote]_vars

\* C4 as amended. In a non-fresh sync a delta that has the local file's time
\* triggers no download and no local delete, and a file whose key has a
\* SyncState entry when phase B reaches it is not uploaded if its local time
\* is account.last_synced or the entry's. (The tie of phase A removes the
\* entry, and phase B then uploads the file as untracked.)
C4_EqualTimes ==
    [][\A p \in procs :
        /\ (PhaseAStepped(p) /\ LosingDelta(p)
              /\ CurrentDelta(p).last_modified = run[p].local_files[CurrentFull(p)])
            => /\ disk' = disk
               /\ run'[p].downloaded_count = run[p].downloaded_count
               /\ run'[p].deleted_local_count = run[p].deleted_local_count
        /\ \A f \in run[p].todo :
            (/\ PhaseBSteppedOn(p, f)
             /\ ~run[p].fresh
             /\ Has(run[p].cloudfiles, SplitLast(f, Root))
             /\ \/ run[p].local_files[f] = run[p].account.last_synced
                \/ run[p].local_files[f] = run[p].cloudfiles[SplitLast(f, Root)])
                => /\ run'[p].uploaded_count = run[p].uploaded_count
                   /\ remote' = remote]_vars

\* A tracked file whose time is its entry's was passed over by phase B.
C4_Witness ==
    \E p \in procs :
        /\ run[p].pc = "phaseB"
        /\ ~run[p].fresh
        /\ run[p].ev.op = "no_upload"
        /\ \E f \in (DOMAIN run[p].local_files) \ run[p].todo :
            /\ f # StateFilePath
            /\ SplitLast(f, Root) = run[p].ev.path
            /\ Has(run[p].cloudfiles, run[p].ev.path)
            /\ run[p].local_files[f] = run[p].cloudfiles[run[p].ev.path]

\* C5. Deletion propagation: the remote delete that phase C issues for a
\* SyncState entry without a local file is made with the identifier the
\* drive gave the item, not with its path.
C5_DeleteByRemoteId ==
    \A p \in procs :
        \A c \in run[p].delete_calls :
            \E n \in 1..nextId : c.cloud_id = ItemId(n)

\* p takes the step that opens and loads the state file.
OpenStepped(p) == run[p].pc = "open" /\ run'[p].pc # "open"

\* C6. Fresh sync: with fresh=true, and no failure of the disk or the
\* network, every file of the snapshot is off the disk before the first
\* delta is handled, account.last_synced is 0 for the skip filter, the prior
\* SyncState is not loaded, and every CreatedOrModified delta is downloaded
\* whatever its last_modified is.
C6_FreshSync ==
    [][\A p \in procs :
        /\ (run'[p].fresh /\ run'[p].pc = "delta")
            => run'[p].scanned \cap DOMAIN disk' = {}
        /\ (run'[p].fresh /\ run'[p].pc \in {"delta", "phaseA"})
            => run'[p].account.last_synced = 0
        /\ (OpenStepped(p) /\ run[p].fresh)
            => /\ run'[p].pc = "scan"
               /\ run'[p].cloudfiles = EmptyMap
        /\ (PhaseAStepped(p) /\ run[p].fresh /\ ~CurrentDelta(p).deleted)
            => /\ run'[p].downloaded_count = run[p].downloaded_count + 1
               /\ Has(disk', CurrentFull(p))
               /\ disk'[CurrentFull(p)].data = remote[CurrentDelta(p).file_path].data
               /\ Has(run'[p].cloudfiles, CurrentDelta(p).file_path)]_vars

\* A fresh sync of a folder that held a user's file and a state file with
\* entries downloaded a file that the last sync had already seen.
C6_Witness ==
    \E p \in procs :
        /\ run[p].fresh
        /\ run[p].pc = "phaseA"
        /\ run[p].i > 1
        /\ run[p].ev.op = "download"
        /\ run[p].scanned \cap UserFiles # {}
        /\ run[p].before >= run[p].deltas[run[p].i - 1].last_modified

\* The directory that holds the file at path f.
DirOf(f) ==
    LET last == CHOOSE i \in 1..Len(f) :
                    f[i] = "/" /\ \A j \in (i + 1)..Len(f) : f[j] # "/"
    IN  SubSeq(f, 1, last - 1)

\* The lines of the state file on disk that are about path.
LinesFor(path) ==
    LET lines == disk[StateFilePath].data
    IN  { n \in 1..Len(lines) :
            /\ Len(lines[n]) > Len(path)
            /\ SubSeq(lines[n], Len(lines[n]) - Len(path) + 1, Len(lines[n])) = path
            /\ lines[n][Len(lines[n]) - Len(path)] = ":" }

\* p went from an empty folder, an empty SyncState and last_synced 0
\* through a single CreatedOrModified delta, downloaded, to the commit.
DownloadedOne(p) ==
    /\ run[p].pc = "save"
    /\ ~run[p].fresh
    /\ run[p].before = 0
    /\ run[p].loaded = EmptyMap
    /\ run[p].scanned \subseteq {StateFilePath}
    /\ Len(run[p].deltas) = 1
    /\ ~run[p].deltas[1].deleted
    /\ run[p].deltas[1].last_modified > 0
    /\ run[p].downloaded_count = 1

\* C7. Download end to end: from an empty folder, an empty SyncState and
\* account.last_synced = 0, a non-fresh sync given a single CreatedOrModified
\* delta whose download succeeds ends with the parent directory made, the
\* file written with the drive's content, one line for the path in the
\* committed state file (with the time of the download), and the saved
\* last_synced at the clock's time.
C7_DownloadEndToEnd ==
    [][\A p \in procs :
        (DownloadedOne(p) /\ run'[p].pc = "idle")
            => LET path == run[p].deltas[1].file_path
                   full == Root \o path
               IN  /\ DirOf(full) \in dirs
                   /\ Has(disk, full)
                   /\ disk[full].data = remote[path].data
                   /\ Has(disk, StateFilePath)
                   /\ Cardinality(LinesFor(path)) = 1
                   /\ \A n \in LinesFor(path) :
                        disk[StateFilePath].data[n]
                            = ToDec(disk[full].mtime) \o <<":">> \o path
                   /\ run'[p].result = "ok"
                   /\ config'.last_synced = now
                   /\ config'.last_synced > 0]_vars

\* The sync of the scenario has committed.
C7_Witness ==
    \E p \in procs :
        /\ DownloadedOne(p)
        /\ Has(disk, Root \o run[p].deltas[1].file_path)
        /\ LinesFor(run[p].deltas[1].file_path) # {}

\* The line has a ':' preceded by an unsigned decimal number.
Numbered(line) ==
    \E k \in 2..Len(line) :
        /\ line[k] = ":"
        /\ \A j \in 1..(k - 1) : line[j] # ":"
        /\ \A j \in 2..(k - 1) : IsDigit(line[j])
        /\ IsDigit(line[1]) \/ (line[1] = "+" /\ k > 2)

\* The state file on disk has a line the loader cannot parse.
Unparseable ==
    /\ Has(disk, StateFilePath)
    /\ \E n \in 1..Len(disk[StateFilePath].data) : ~Numbered(disk[StateFilePath].data[n])

C9_StateFileNotScanned ==
    \A p \in procs :
        /\ StateFilePath \notin run[p].scanned
        /\ ~Has(run[p].local_files, StateFilePath)

\* p takes a step in which the token refresh, the scan, a removal of the
\* fresh sync's cleanup or the commit fails.
FatalFailure(p) ==
    /\ run[p].pc \in {"idle", "scan", "cleanup", "commit"}
    /\ run'[p] # run[p]
    /\ faults' = faults + 1

\* The saved last_synced when p's invocation began.
SavedBefore(p) == IF run[p].pc = "idle" THEN config.last_synced ELSE run[p].before

\* C10. A failure of the token refresh, of the scan, of the fresh sync's
\* cleanup or of the commit makes sync_files return an error in that step,
\* and the saved account's last_synced is what it was before the sync.
C10_FatalFailures ==
    [][\A p \in procs :
        FatalFailure(p)
            => /\ run'[p].pc = "idle"
               /\ run'[p].result = "err"
               /\ config'.last_synced = SavedBefore(p)]_vars

\* A commit failed in a sync that followed a completed one.
C10_Witness ==
    \E p \in procs :
        /\ run[p].pc = "idle"
        /\ run[p].result = "err"
        /\ run[p].errAt = "commit"
        /\ config.last_synced > 0

\* p takes a step in which the delta fetch, a download (its directory and
\* its write included), an upload, a remote delete or a local remove fails.
PerItemFailure(p) ==
    /\ run[p].pc \in {"delta", "phaseA", "phaseB", "phaseC"}
    /\ run'[p] # run[p]
    /\ faults' = faults + 1

\* C11. A failure of the delta fetch, of a download (creating the directory
\* and writing the file included), of an upload, of a remote delete or of a
\* local remove does not end the sync: sync_files does not return in that
\* step and goes on with the remaining entries and phases.
C11_PerItemFailuresGoOn ==
    [][\A p \in procs : PerItemFailure(p) => run'[p].pc # "idle"]_vars

\* C12. A failed download is tried again by the next sync: when the download
\* of a CreatedOrModified delta failed in a sync that completed, and nothing
\* changed since, the next sync with fresh=false, suffering no failure,
\* downloads that file.
C12_FailedDownloadRetried ==
    \A p \in procs :
        (run[p].pc = "save" /\ ~run[p].fresh /\ run[p].clean)
            => run[p].missed_down \subseteq run[p].got

\* C13. A failed upload is tried again by the next sync: when the read or
\* the upload of a file that phase B meant to upload (untracked, or tracked
\* and modified) failed in a sync that completed, and nothing changed since,
\* the next sync with fresh=false, suffering no failure, uploads the file.
C13_FailedUploadRetried ==
    \A p \in procs :
        (run[p].pc = "save" /\ ~run[p].fresh /\ run[p].clean)
            => run[p].missed_up \subseteq run[p].sent

\* The keys p's sync recorded at a download or an upload, with those of
\* the state file it loaded.
RecordedKeys(p) ==
    (DOMAIN run[p].loaded) \cup run[p].got
        \cup { SplitLast(f, Root) : f \in run[p].sent }

\* C14 as stated. At every successful commit every key of the committed
\* SyncState is that of a file in the snapshot at the end of the sync
\* (root + key) which the engine downloaded or uploaded.
C14_KeysHaveLocalFiles ==
    \A p \in procs :
        run[p].pc = "save"
            => \A k \in DOMAIN run[p].cloudfiles :
                /\ Has(run[p].local_files, Root \o k)
                /\ k \in RecordedKeys(p)

\* C14 as amended. At every successful commit every key of the committed
\* SyncState was recorded by the engine at a download or an upload, in this
\* sync or in one whose state file it loaded; a key whose file (root + key)
\* is not in the snapshot is committed all the same when the remote delete
\* that phase C issued for it did not succeed.
C14_KeysWereRecorded ==
    \A p \in procs :
        run[p].pc = "save"
            => \A k \in DOMAIN run[p].cloudfiles :
                /\ k \in RecordedKeys(p)
                /\ \/ Has(run[p].local_files, Root \o k)
                   \/ \E c \in run[p].delete_calls : c.key = k

\* A sync committed the key of a file that is gone, after its delete call.
C14_Witness ==
    \E p \in procs :
        /\ run[p].pc = "save"
        /\ \E k \in DOMAIN run[p].cloudfiles :
            /\ ~Has(run[p].local_files, Root \o k)
            /\ ~Has(disk, Root \o k)
            /\ k \in DOMAIN run[p].loaded
            /\ \E c \in run[p].delete_calls : c.key = k

\* The lines of the state file as the step leaves them on disk.
PersistedLines == IF Has(disk', StateFilePath) THEN disk'[StateFilePath].data ELSE <<>>

\* sync_files, called with fresh=false and past the opening of the state
\* file, returns in this step.
Exits(p) ==
    /\ run[p].pc \notin {"idle", "open"}
    /\ ~run[p].fresh
    /\ run'[p].pc = "idle"

\* C15. The account is consistent on every exit of sync_files: the saved
\* cursor, the saved last_synced and the state file come from the same
\* completed sync. On success all three are this sync's; on a failure all
\* three are what they were when the sync began. (Stated for fresh=false.)
C15_ConsistentOnExit ==
    [][\A p \in procs :
        Exits(p)
            => IF run'[p].result = "ok"
               THEN /\ PersistedLines = FormatLines(run[p].cloudfiles)
                    /\ config'.last_synced = now
                    /\ config'.attributes = run[p].account.attributes
               ELSE /\ PersistedLines = run[p].opened
                    /\ config' = config
                    /\ config.last_synced = run[p].before]_vars

\* C16. The saved last_synced never decreases from one successful sync to
\* the next, a fresh sync included, the clock never going back.
C16_LastSyncedMonotonic ==
    [][config'.last_synced >= config.last_synced]_vars

\* A fresh sync, which reset its last_synced to 0, was saved after an
\* earlier sync.
C16_Witness ==
    \E p \in procs :
        /\ runs >= 2
        /\ run[p].pc = "idle"
        /\ run[p].fresh
        /\ run[p].result = "ok"
        /\ config.last_synced = now
        /\ Has(config.attributes, "delta_link")

\* C17. The state file round-trips the SyncState: whatever the SyncState,
\* paths with ':' included, a sync with fresh=false that loads what the
\* sync before committed gets the same keys with the same values.
C17_RoundTrip ==
    [][\A p \in procs :
        (OpenStepped(p) /\ ~run[p].fresh /\ probe # <<>>)
            => /\ run'[p].pc = "scan"
               /\ run'[p].cloudfiles = probe]_vars

\* C18. Two invocations at once on one folder can lose an update: nothing
\* keeps the other's result. A commit leaves the state file holding the
\* committing sync's SyncState and nothing else, whatever it held, and a
\* saved account holds the saving sync's cursor.
C18_LastWriterWins ==
    [][\A p \in procs :
        /\ (run[p].pc = "commit" /\ run'[p].pc = "save" /\ run[p].linked)
              => /\ Has(disk', StateFilePath)
                 /\ disk'[StateFilePath].data = FormatLines(run[p].cloudfiles)
        /\ (run[p].pc = "save" /\ run'[p].pc = "idle" /\ run'[p].result = "ok")
              => config'.attributes = run[p].account.attributes]_vars

\* Both invocations loaded the same SyncState and both have committed; one
\* recorded a path that the state file, written last by the other, lacks.
C18_Witness ==
    \E p \in procs, q \in procs :
        /\ p # q
        /\ run[p].pc = "save" /\ run[q].pc = "save"
        /\ ~run[p].fresh /\ ~run[q].fresh
        /\ run[p].linked /\ run[q].linked
        /\ run[p].loaded = run[q].loaded
        /\ Has(disk, StateFilePath)
        /\ disk[StateFilePath].data = FormatLines(run[p].cloudfiles)
        /\ \E k \in DOMAIN run[q].cloudfiles :
            /\ ~Has(run[q].loaded, k)
            /\ ~Has(run[p].cloudfiles, k)
            /\ \A i \in 1..Len(disk[StateFilePath].data) :
                  disk[StateFilePath].data[i] # FormatLine(k, run[q].cloudfiles[k])

\* Days from 1970-01-01 to a date of the Gregorian calendar, counted from
\* the 400-year cycle of 146097 days (years taken to begin in March).
DaysFromCivil(y, m, d) ==
    LET yy == IF m <= 2 THEN y - 1 ELSE y
        era == yy \div 400
        yoe == yy - era * 400
        mp == IF m > 2 THEN m - 3 ELSE m + 9
        doy == (153 * mp + 2) \div 5 + d - 1
        doe == yoe * 365 + yoe \div 4 - yoe \div 100 + doy
    IN  era * 146097 + doe - 719468

\* C19. parse_iso_date returns the Gregorian seconds since the epoch for
\* every valid YYYY-MM-DDThh:mm:ss[.fraction]Z from 1970 on: the fraction
\* and the Z do not count, the same time one day later is 86400 seconds
\* more (February 29 of a leap year included), and 2023-08-06T13:23:00Z
\* is 1691328180.
C19_GregorianSeconds ==
    probe.parsed =>
        LET m == probe.moment
        IN  /\ probe.result = Wide(DaysFromCivil(m.year, m.month, m.date),
                                   m.hours * 3600 + m.minutes * 60 + m.seconds)
            /\ probe.nth = 1 =>
                  (probe.result.high - probe.previous.high) * 100
                      + (probe.result.low - probe.previous.low) = 86400
            /\ probe.input = <<"2", "0", "2", "3", "-", "0", "8", "-", "0", "6", "T",
                               "1", "3", ":", "2", "3", ":", "0", "0", "Z">>
                  => probe.result = [high |-> 16913281, low |-> 80]

\* 2024-02-29T00:00:00.093Z was parsed after 2024-02-28T00:00:00.093Z.
C19_Witness ==
    /\ probe.parsed
    /\ probe.nth = 1
    /\ probe.moment.year = 2024 /\ probe.moment.month = 2 /\ probe.moment.date = 29
    /\ probe.moment.hours = 0 /\ probe.moment.minutes = 0 /\ probe.moment.seconds = 0
    /\ probe.moment.fraction # <<>>

\* C20. What the filter skips was applied before: when a sync skips a
\* delta because account.last_synced >= last_modified, and the delta is the
\* version of the file that the drive holds, written there by someone else,
\* then an earlier sync downloaded that version.
C20_SkippedWasApplied ==
    [][\A p \in procs :
        (/\ PhaseAStepped(p)
         /\ run[p].account.last_synced >= CurrentDelta(p).last_modified
         /\ ~CurrentDelta(p).deleted
         /\ Has(remote, CurrentDelta(p).file_path)
         /\ remote[CurrentDelta(p).file_path].mtime = CurrentDelta(p).last_modified
         /\ remote[CurrentDelta(p).file_path].data = RemoteData)
            => <<CurrentDelta(p).file_path, CurrentDelta(p).last_modified>>
                    \in run[p].applied]_vars

\* C21. Phase B uploads a file of the snapshot if and only if its path
\* relative to the root has no SyncState entry, or its local time is later
\* than account.last_synced and later than the entry; an upload sets the
\* entry of that relative path to the current time and changes no other.
C21_UploadRule ==
    [][\A p \in procs : \A f \in DOMAIN run[p].local_files :
        PhaseBSteppedOn(p, f) =>
            LET cf == run[p].cloudfiles
                rel == RelativeTo(f)
                lm == run[p].local_files[f]
                due == \/ ~Has(cf, rel)
                       \/ lm > run[p].account.last_synced /\ lm > cf[rel]
            IN  /\ (run'[p].uploaded_count = run[p].uploaded_count + 1) <=> due
                /\ run'[p].cloudfiles = IF due THEN Put(cf, rel, now) ELSE cf]_vars

\* p, run with fresh=false, has finished its three phases.
PhasesDone(p) == run[p].pc = "save" /\ ~run[p].fresh

\* The paths whose remote delete p issued in this sync.
DeleteKeys(p) == { c.key : c \in run[p].delete_calls }

\* Phase A of p's sync handled a delta for path k.
DeltaHandled(p, k) ==
    \E j \in 1..Len(run[p].deltas) :
        /\ run[p].deltas[j].file_path = k
        /\ run[p].deltas[j].last_modified > run[p].account.last_synced

\* A remote delete that failed left its entry in the SyncState, which is
\* what the state file holds once committed.
FailedDeleteKept(p) ==
    \A k \in run[p].failed_del :
        /\ Has(run[p].cloudfiles, k)
        /\ run[p].linked =>
              \E i \in 1..Len(disk[StateFilePath].data) :
                  disk[StateFilePath].data[i]
                      = ToDec(run[p].cloudfiles[k]) \o <<":">> \o k

\* C22 as stated. A failed remote delete leaves the entry, committed; the
\* next sync with fresh=false that finds the file still absent issues the
\* delete again, and the entry goes only with a delete that succeeded.
C22_DeleteRetried ==
    \A p \in procs :
        PhasesDone(p) =>
            /\ FailedDeleteKept(p)
            /\ \A k \in run[p].missed_del :
                  (Root \o k) \notin run[p].scanned =>
                      /\ k \in DeleteKeys(p)
                      /\ ~Has(run[p].cloudfiles, k) => run[p].deleted_cloud_count > 0

\* C22, amended. The same for an entry of which Phase A of the next sync
\* handles no delta: a delta for the path removes the entry or brings the
\* file back before Phase C.
C22_DeleteRetriedUnlessDelta ==
    \A p \in procs :
        PhasesDone(p) =>
            /\ FailedDeleteKept(p)
            /\ \A k \in run[p].missed_del :
                  ((Root \o k) \notin run[p].scanned /\ ~DeltaHandled(p, k)) =>
                      /\ k \in DeleteKeys(p)
                      /\ ~Has(run[p].cloudfiles, k) => run[p].deleted_cloud_count > 0

\* A sync issued again the remote delete that failed in the sync before.
C22_Witness ==
    \E p \in procs : \E k \in run[p].missed_del :
        /\ PhasesDone(p)
        /\ k \in userRel
        /\ (Root \o k) \notin run[p].scanned
        /\ ~DeltaHandled(p, k)
        /\ k \in DeleteKeys(p)
        /\ k \in run[p].failed_del

\* C23. A file that Phase A downloaded is not uploaded by Phase B and not
\* deleted on the drive by Phase C of the same sync, whatever the deltas,
\* two deltas for one path included.
C23_DownloadedLeftAlone ==
    \A p \in procs : \A k \in run[p].got :
        /\ (Root \o k) \notin run[p].sent
        /\ \A c \in run[p].delete_calls : c.key # k /\ c.cloud_id # k

\* C24. No local edit of a tracked file is lost: a file with a SyncState
\* entry that the user wrote after the sync before returned, in the second
\* that sync recorded as last_synced or later, and for which the drive
\* reports no change, is uploaded by the next sync with fresh=false that
\* completes.
C24_EditUploaded ==
    \A p \in procs :
        PhasesDone(p) =>
            \A f \in run[p].edited :
                (/\ f \in run[p].scanned
                 /\ Has(run[p].loaded, RelativeTo(f))
                 /\ ~DeltaHandled(p, RelativeTo(f)))
                    => f \in run[p].sent

\* C25. What a fresh sync commits is what the next sync loads: when a fresh
\* sync returns with success the state file is on the disk with an entry
\* for every file the sync downloaded, and a sync with fresh=false that
\* follows with no change in between uploads none of those files.
C25_FreshStateKept ==
    [][\A p \in procs :
        /\ (run[p].pc = "save" /\ run[p].fresh
              /\ run'[p].pc = "idle" /\ run'[p].result = "ok")
             => /\ Has(disk', StateFilePath)
                /\ \A k \in run[p].got :
                      \E i \in 1..Len(disk'[StateFilePath].data) :
                          disk'[StateFilePath].data[i]
                              = ToDec(run[p].cloudfiles[k]) \o <<":">> \o k
        /\ (PhasesDone(p) /\ run[p].clean)
             => \A k \in run[p].fresh_got : (Root \o k) \notin run[p].sent]_vars

\* C26. The relative path that Phase B computes for a file of the snapshot,
\* and uses as SyncState key and upload path, put after the root gives the
\* absolute path of the file, also when the root's string occurs again in
\* the path below the root.
C26_RelativePath ==
    [][\A p \in procs : \A f \in DOMAIN run[p].local_files :
        PhaseBSteppedOn(p, f) =>
            /\ Root \o run'[p].ev.path = f
            /\ run'[p].ev.op = "upload" =>
                  /\ Has(run'[p].cloudfiles, SubSeq(f, Len(Root) + 1, Len(f)))
                  /\ Has(remote', SubSeq(f, Len(Root) + 1, Len(f)))]_vars

====
